---- MODULE Spec2Model ----
(***************************************************************************)
(* KML File Viewer (src/src/App.js): the App component's state, its three  *)
(* handlers (file selection, Summary, Detailed), the FileReader completion *)
(* callback and the fit-to-bounds effect.                                   *)
(***************************************************************************)
EXTENDS Integers, Sequences, FiniteSets

\* ------------------------------------------------------------- bounds
\* Reads that may be pending at once in the model (the code has no limit).
MaxInFlight == 2
\* Placemarks per document in the metrics specification.
MaxPlacemarks == 3

\* ------------------------------------------------------------- values
\* JavaScript null.
Null == [tag |-> "null"]
\* e.target.files[0] when the picker is dismissed: undefined.
NoFile == [tag |-> "undefined"]
\* A JavaScript object used as a string-keyed mapping.
Obj(f) == [tag |-> "object", entries |-> f]
EmptyEntries == [k \in {} |-> 0]

\* turf.bbox starts from [Infinity, Infinity, -Infinity, -Infinity]; the
\* number stands for Infinity and exceeds every coordinate of the model.
Infinity == 1000

\* Placemark geometries as togeojson emits them; coordinates are a sequence
\* of paths, each a sequence of <<longitude, latitude>> positions.
PointA == [type |-> "Point", coordinates |-> << << <<1, 1>> >> >>]
LineA == [type |-> "LineString", coordinates |-> << << <<0, 0>>, <<3, 2>> >> >>]
LineB == [type |-> "LineString", coordinates |-> << << <<2, 2>>, <<2, 5>>, <<3, 5>> >> >>]
\* A LineString with a single position.
LineDot == [type |-> "LineString", coordinates |-> << << <<4, 4>> >> >>]
MultiA ==
    [type |-> "MultiLineString",
     coordinates |-> << << <<0, 1>>, <<0, 3>> >>, << <<5, 0>>, <<6, 0>> >> >>]
PolygonA ==
    [type |-> "Polygon",
     coordinates |-> << << <<0, 0>>, <<2, 0>>, <<2, 2>>, <<0, 0>> >> >>]
\* A Placemark with a name and no geometry element.
NoGeometry == [type |-> "none", coordinates |-> << >>]

PlacemarkKinds == {PointA, LineA, LineB, LineDot, MultiA, PolygonA, NoGeometry}

\* File texts: a document is well-formed XML or not, and holds Placemarks.
Kml(placemarks) == [wellFormed |-> TRUE, placemarks |-> placemarks]
MalformedText == [wellFormed |-> FALSE, placemarks |-> << >>]
EmptyKml == Kml(<< >>)
KmlA == Kml(<<PointA, LineA>>)
KmlB == Kml(<<LineA, NoGeometry, LineB, MultiA, PolygonA>>)

\* The files the user picks from in the interface specification.
Files == {MalformedText, EmptyKml, KmlA, KmlB}

\* ------------------------------------------------------------- state
VARIABLES
    geoJsonData,    \* useState: the current collection, or Null
    summary,        \* useState: Null or Obj(type -> count)
    details,        \* useState: Null or Obj(type -> length)
    mapRef,         \* mapRef.current is set
    viewport,       \* the map's viewport
    effectPending,  \* the [geoJsonData] effect is scheduled and has not run
    effectResult,   \* what the effect's last run did
    inflight,       \* texts of the reads started and not completed, oldest first
    pc,             \* position inside reader.onload
    batched,        \* the build renders reader.onload's three updates as one
    lastEvent,      \* history: the handler that ran last
    again,          \* history: the last click found its view already computed
    lastLoaded,     \* history: text of the read that completed last
    lastSelected    \* history: text of the file selected last

vars ==
    <<geoJsonData, summary, details, mapRef, viewport, effectPending,
      effectResult, inflight, pc, batched, lastEvent, again, lastLoaded,
      lastSelected>>

\* MapContainer center={[51.505, -0.09]} zoom={13}, in thousandths of a degree.
DefaultViewport == [center |-> <<51505, -90>>, zoom |-> 13]

\* ------------------------------------------------------------- parsing
\* DOMParser.parseFromString(text, 'text/xml') never throws: text that is not
\* XML yields a document whose root is a parsererror element.
parseFromString(text) ==
    IF text.wellFormed
    THEN [documentElement |-> "kml", placemarks |-> text.placemarks]
    ELSE [documentElement |-> "parsererror", placemarks |-> << >>]

\* One GeoJSON Feature of a Placemark's geometry.
Feature(geometry) == [type |-> "Feature", geometry |-> geometry]

RECURSIVE PlacemarkFeatures(_)
\* togeojson walks the Placemark elements in document order and emits a
\* Feature for each one that has a geometry.
PlacemarkFeatures(placemarks) ==
    IF placemarks = << >>
    THEN << >>
    ELSE LET rest == PlacemarkFeatures(Tail(placemarks))
         IN  IF Head(placemarks).type = "none"
             THEN rest
             ELSE <<Feature(Head(placemarks))>> \o rest

\* toGeoJSON.kml(doc): always a FeatureCollection, empty when the document has
\* no Placemark (a parsererror document has none).
kml(doc) ==
    [type |-> "FeatureCollection", features |-> PlacemarkFeatures(doc.placemarks)]

\* ------------------------------------------------------------- metrics
\* (obj[key] || 0)
OrZero(entries, key) == IF key \in DOMAIN entries THEN entries[key] ELSE 0

\* obj[key] = value
Put(entries, key, value) ==
    [k \in DOMAIN entries \cup {key} |-> IF k = key THEN value ELSE entries[k]]

Abs(x) == IF x < 0 THEN -x ELSE x

\* Distance between two positions, in whole kilometres: the model's stand-in
\* for turf's great-circle distance.
Distance(p, q) == Abs(p[1] - q[1]) + Abs(p[2] - q[2])

RECURSIVE PathLength(_)
PathLength(path) ==
    IF Len(path) < 2
    THEN 0
    ELSE Distance(path[1], path[2]) + PathLength(Tail(path))

RECURSIVE PathsLength(_)
PathsLength(paths) ==
    IF paths = << >> THEN 0 ELSE PathLength(Head(paths)) + PathsLength(Tail(paths))

\* turf.length(feature, {units: 'kilometers'}): the length along every segment.
TurfLength(feature) == PathsLength(feature.geometry.coordinates)

\* Variant of CountStep that stores 1 instead of incrementing the entry.
CountStepOverwrite(counts, feature) ==
    Put(counts, feature.geometry.type, 1)

\* The body of handleSummary's forEach.
CountStep(counts, feature) ==
    LET geomType == feature.geometry.type
    IN  Put(counts, geomType, OrZero(counts, geomType) + 1)

\* Variant of DetailStep without the test for the two line types.
DetailStepAllTypes(detailsData, feature) ==
    LET geomType == feature.geometry.type
    IN  Put(detailsData, geomType,
            OrZero(detailsData, geomType) + TurfLength(feature))

\* The body of handleDetailed's forEach.
DetailStep(detailsData, feature) ==
    LET geomType == feature.geometry.type
    IN  IF geomType = "LineString" \/ geomType = "MultiLineString"
        THEN Put(detailsData, geomType,
                 OrZero(detailsData, geomType) + TurfLength(feature))
        ELSE detailsData

RECURSIVE CountLoop(_, _, _)
CountLoop(features, i, counts) ==
    IF i > Len(features)
    THEN counts
    ELSE CountLoop(features, i + 1, CountStep(counts, features[i]))

RECURSIVE DetailLoop(_, _, _)
DetailLoop(features, i, detailsData) ==
    IF i > Len(features)
    THEN detailsData
    ELSE DetailLoop(features, i + 1, DetailStep(detailsData, features[i]))

\* ------------------------------------------------------------- bounds
\* Every position of every feature of the collection.
Positions(collection) ==
    UNION { UNION { { collection.features[i].geometry.coordinates[j][k] :
                        k \in DOMAIN collection.features[i].geometry.coordinates[j] } :
                    j \in DOMAIN collection.features[i].geometry.coordinates } :
            i \in DOMAIN collection.features }

Least(S) == CHOOSE x \in S : \A y \in S : x <= y
Greatest(S) == CHOOSE x \in S : \A y \in S : y <= x

\* turf.bbox(collection): [minX, minY, maxX, maxY], which stays at its start
\* value [Infinity, Infinity, -Infinity, -Infinity] when there is no position.
TurfBbox(collection) ==
    LET ps == Positions(collection)
    IN  IF ps = {}
        THEN <<Infinity, Infinity, -Infinity, -Infinity>>
        ELSE <<Least({p[1] : p \in ps}), Least({p[2] : p \in ps}),
               Greatest({p[1] : p \in ps}), Greatest({p[2] : p \in ps})>>

\* The argument of fitBounds: [southWest, northEast] as [lat, lng] pairs, and
\* the padding option.
FitArgument(bbox) ==
    [southWest |-> <<bbox[2], bbox[1]>>, northEast |-> <<bbox[4], bbox[3]>>,
     padding |-> <<20, 20>>]

\* What fitBounds can do with the argument: bounds with south-west below
\* north-east reposition the viewport; for the inverted infinite bounds the map
\* library either takes them as the viewport or throws.
FitOutcomes(bbox) ==
    IF bbox[1] <= bbox[3] /\ bbox[2] <= bbox[4] THEN {"fitted"} ELSE {"fitted", "threw"}

\* ------------------------------------------------------------- actions
\* The sequence without its i-th element.
Without(seq, i) == SubSeq(seq, 1, i - 1) \o SubSeq(seq, i + 1, Len(seq))

\* No handler is running and no effect is waiting: the next event is handled.
Ready == pc = "idle" /\ ~effectPending

\* Variant of HandleFileUpload that aborts the pending reads before it starts
\* the new one.
HandleFileUploadAbort(file) ==
    /\ Ready
    /\ IF file = NoFile
       THEN /\ lastEvent' = "cancel"
            /\ UNCHANGED <<inflight, lastSelected>>
       ELSE /\ Len(inflight) < MaxInFlight
            /\ inflight' = <<file>>
            /\ lastSelected' = file
            /\ lastEvent' = "select"
    /\ again' = FALSE
    /\ UNCHANGED <<geoJsonData, summary, details, mapRef, viewport,
                   effectPending, effectResult, pc, batched, lastLoaded>>

\* handleFileUpload: with no file chosen it returns; otherwise it starts a read
\* of the file, whatever reads are already pending.
HandleFileUpload(file) ==
    /\ Ready
    /\ IF file = NoFile
       THEN /\ lastEvent' = "cancel"
            /\ UNCHANGED <<inflight, lastSelected>>
       ELSE /\ Len(inflight) < MaxInFlight
            /\ inflight' = Append(inflight, file)
            /\ lastSelected' = file
            /\ lastEvent' = "select"
    /\ again' = FALSE
    /\ UNCHANGED <<geoJsonData, summary, details, mapRef, viewport,
                   effectPending, effectResult, pc, batched, lastLoaded>>

\* Variant of InitialCounts that carries on from the summary already shown.
InitialCountsCarried == IF summary = Null THEN EmptyEntries ELSE summary.entries

\* const counts = {}
InitialCounts == EmptyEntries

\* const detailsData = {}
InitialDetails == EmptyEntries

\* Variant of OnLoad that keeps the collection when the completed read is not
\* the newest one started.
OnLoadNewestOnly(i) ==
    /\ Ready
    /\ i \in DOMAIN inflight
    /\ lastLoaded' = inflight[i]
    /\ geoJsonData' = IF i = Len(inflight)
                      THEN kml(parseFromString(inflight[i]))
                      ELSE geoJsonData
    /\ inflight' = Without(inflight, i)
    /\ effectPending' = TRUE
    /\ summary' = Null
    /\ details' = Null
    /\ pc' = "idle"
    /\ lastEvent' = "load"
    /\ again' = FALSE
    /\ UNCHANGED <<mapRef, viewport, effectResult, batched, lastSelected>>

\* reader.onload of the i-th pending read. The three state updates are
\* rendered as one where the build batches them; otherwise setGeoJsonData is
\* rendered on its own and the two resets follow, each with its own render.
OnLoad(i) ==
    /\ Ready
    /\ i \in DOMAIN inflight
    /\ LET text == inflight[i]
           geoJson == kml(parseFromString(text))
       IN  /\ geoJsonData' = geoJson
           /\ lastLoaded' = text
    /\ inflight' = Without(inflight, i)
    /\ effectPending' = TRUE
    /\ IF batched
       THEN /\ summary' = Null
            /\ details' = Null
            /\ pc' = "idle"
       ELSE /\ pc' = "setSummary"
            /\ UNCHANGED <<summary, details>>
    /\ lastEvent' = "load"
    /\ again' = FALSE
    /\ UNCHANGED <<mapRef, viewport, effectResult, batched, lastSelected>>

\* setSummary(null) in reader.onload, rendered on its own.
OnLoadSetSummary ==
    /\ pc = "setSummary"
    /\ summary' = Null
    /\ pc' = "setDetails"
    /\ lastEvent' = "load"
    /\ again' = FALSE
    /\ UNCHANGED <<geoJsonData, details, mapRef, viewport, effectPending,
                   effectResult, inflight, batched, lastLoaded, lastSelected>>

\* setDetails(null) in reader.onload, rendered on its own.
OnLoadSetDetails ==
    /\ pc = "setDetails"
    /\ details' = Null
    /\ pc' = "idle"
    /\ lastEvent' = "load"
    /\ again' = FALSE
    /\ UNCHANGED <<geoJsonData, summary, mapRef, viewport, effectPending,
                   effectResult, inflight, batched, lastLoaded, lastSelected>>

\* Variant of HandleSummary without the test for a missing collection.
HandleSummaryUnguarded ==
    /\ Ready
    /\ summary' = Obj(IF geoJsonData = Null
                      THEN EmptyEntries
                      ELSE CountLoop(geoJsonData.features, 1, InitialCounts))
    /\ lastEvent' = "summary"
    /\ again' = (summary # Null)
    /\ UNCHANGED <<geoJsonData, details, mapRef, viewport, effectPending,
                   effectResult, inflight, pc, batched, lastLoaded, lastSelected>>

\* handleSummary
HandleSummary ==
    /\ Ready
    /\ IF geoJsonData = Null
       THEN UNCHANGED summary
       ELSE summary' = Obj(CountLoop(geoJsonData.features, 1, InitialCounts))
    /\ lastEvent' = "summary"
    /\ again' = (summary # Null)
    /\ UNCHANGED <<geoJsonData, details, mapRef, viewport, effectPending,
                   effectResult, inflight, pc, batched, lastLoaded, lastSelected>>

\* Variant of HandleDetailed that also resets the summary.
HandleDetailedResetsSummary ==
    /\ Ready
    /\ IF geoJsonData = Null
       THEN UNCHANGED details
       ELSE details' = Obj(DetailLoop(geoJsonData.features, 1, InitialDetails))
    /\ summary' = Null
    /\ lastEvent' = "detailed"
    /\ again' = (details # Null)
    /\ UNCHANGED <<geoJsonData, mapRef, viewport, effectPending,
                   effectResult, inflight, pc, batched, lastLoaded, lastSelected>>

\* handleDetailed
HandleDetailed ==
    /\ Ready
    /\ IF geoJsonData = Null
       THEN UNCHANGED details
       ELSE details' = Obj(DetailLoop(geoJsonData.features, 1, InitialDetails))
    /\ lastEvent' = "detailed"
    /\ again' = (details # Null)
    /\ UNCHANGED <<geoJsonData, summary, mapRef, viewport, effectPending,
                   effectResult, inflight, pc, batched, lastLoaded, lastSelected>>

\* The effect on [geoJsonData]: with a collection and a map it computes the
\* bounding box and calls fitBounds; it has no check for an empty collection.
UseEffect ==
    /\ effectPending
    /\ effectPending' = FALSE
    /\ IF geoJsonData # Null /\ mapRef
       THEN LET bbox == TurfBbox(geoJsonData)
            IN  \E outcome \in FitOutcomes(bbox) :
                    /\ effectResult' = outcome
                    /\ viewport' = IF outcome = "fitted"
                                   THEN FitArgument(bbox)
                                   ELSE viewport
       ELSE /\ effectResult' = "skipped"
            /\ UNCHANGED viewport
    /\ lastEvent' = "effect"
    /\ again' = FALSE
    /\ UNCHANGED <<geoJsonData, summary, details, mapRef, inflight, pc,
                   batched, lastLoaded, lastSelected>>

\* whenCreated: the map component hands over the map instance, in the builds
\* whose map component has this callback.
WhenCreated ==
    /\ pc = "idle"
    /\ ~mapRef
    /\ mapRef' = TRUE
    /\ lastEvent' = "map"
    /\ again' = FALSE
    /\ UNCHANGED <<geoJsonData, summary, details, viewport, effectPending,
                   effectResult, inflight, pc, batched, lastLoaded, lastSelected>>

\* ------------------------------------------------------------- specifications
\* After the first render: nothing loaded, default viewport, mount effect run.
Init ==
    /\ geoJsonData = Null
    /\ summary = Null
    /\ details = Null
    /\ mapRef = FALSE
    /\ viewport = DefaultViewport
    /\ effectPending = FALSE
    /\ effectResult = "skipped"
    /\ inflight = << >>
    /\ pc = "idle"
    /\ batched \in BOOLEAN
    /\ lastEvent = "init"
    /\ again = FALSE
    /\ lastLoaded = NoFile
    /\ lastSelected = NoFile

Next ==
    \/ \E file \in Files \cup {NoFile} : HandleFileUpload(file)
    \/ \E i \in 1..MaxInFlight : OnLoad(i)
    \/ OnLoadSetSummary
    \/ OnLoadSetDetails
    \/ HandleSummary
    \/ HandleDetailed
    \/ UseEffect
    \/ WhenCreated

Spec == Init /\ [][Next]_vars

RECURSIVE Documents(_)
\* The well-formed documents of at most n Placemarks.
Documents(n) ==
    IF n = 0
    THEN {Kml(<< >>)}
    ELSE LET shorter == Documents(n - 1)
         IN  shorter \cup
             {Kml(Append(d.placemarks, g)) : d \in shorter, g \in PlacemarkKinds}

\* The state after one load of any document, rendered and its effect run
\* without a map: the inputs of the two metrics.
InitMetrics ==
    /\ \E d \in Documents(MaxPlacemarks) :
          /\ geoJsonData = kml(parseFromString(d))
          /\ lastLoaded = d
          /\ lastSelected = d
    /\ summary = Null
    /\ details = Null
    /\ mapRef = FALSE
    /\ viewport = DefaultViewport
    /\ effectPending = FALSE
    /\ effectResult = "skipped"
    /\ inflight = << >>
    /\ pc = "idle"
    /\ batched \in BOOLEAN
    /\ lastEvent = "effect"
    /\ again = FALSE

NextMetrics ==
    \/ HandleSummary
    \/ HandleDetailed

SpecMetrics == InitMetrics /\ [][NextMetrics]_vars

\* ------------------------------------------------------------- properties
\* What the properties compare the handlers' results with.
TypesOf(collection) ==
    {collection.features[i].geometry.type : i \in DOMAIN collection.features}

FeaturesOfType(collection, t) ==
    {i \in DOMAIN collection.features : collection.features[i].geometry.type = t}

CountOf(collection, t) == Cardinality(FeaturesOfType(collection, t))

RECURSIVE TotalLength(_, _)
\* The sum of the lengths of the features at the indices in is.
TotalLength(collection, is) ==
    IF is = {}
    THEN 0
    ELSE LET i == CHOOSE x \in is : TRUE
         IN  TurfLength(collection.features[i]) + TotalLength(collection, is \ {i})

RECURSIVE SumValues(_, _)
SumValues(entries, keys) ==
    IF keys = {}
    THEN 0
    ELSE LET k == CHOOSE x \in keys : TRUE
         IN  entries[k] + SumValues(entries, keys \ {k})

LineTypes == {"LineString", "MultiLineString"}

ExpectedSummary(collection) ==
    Obj([t \in TypesOf(collection) |-> CountOf(collection, t)])

ExpectedDetails(collection) ==
    Obj([t \in TypesOf(collection) \cap LineTypes |->
            TotalLength(collection, FeaturesOfType(collection, t))])

\* C1: in every rendered state a non-null summary is the per-type count of the
\* current collection and a non-null details is the per-type line length of
\* the current collection (no stale view is ever shown).
C1_NoStaleView ==
    /\ summary # Null =>
          geoJsonData # Null /\ summary = ExpectedSummary(geoJsonData)
    /\ details # Null =>
          geoJsonData # Null /\ details = ExpectedDetails(geoJsonData)

\* C2: the completion of a read whose text is not XML leaves the collection,
\* the summary and the details as they were.
C2_MalformedLoadLeavesState ==
    [][(lastEvent' = "load" /\ ~lastLoaded'.wellFormed)
          => UNCHANGED <<geoJsonData, summary, details>>]_vars

\* C3: a Summary or Detailed click with no collection loaded changes nothing:
\* collection, summary and details stay null.
C3_ClickWithoutCollectionIsNoOp ==
    [][(geoJsonData = Null /\ lastEvent' \in {"summary", "detailed"})
          => /\ geoJsonData' = Null /\ summary' = Null /\ details' = Null
             /\ summary = Null /\ details = Null]_vars

\* C3 witness: Detailed was clicked with nothing loaded.
C3_Witness ==
    /\ lastEvent = "detailed"
    /\ geoJsonData = Null /\ summary = Null /\ details = Null

\* C4: after a Summary click the summary's keys are exactly the geometry types
\* that occur in the collection, each mapped to the number of features of that
\* type (never 0), and the values sum to the number of features.
C4_SummaryCountsByType ==
    lastEvent = "summary" =>
        /\ summary # Null
        /\ DOMAIN summary.entries = TypesOf(geoJsonData)
        /\ \A t \in DOMAIN summary.entries :
              summary.entries[t] = CountOf(geoJsonData, t) /\ summary.entries[t] > 0
        /\ SumValues(summary.entries, DOMAIN summary.entries)
              = Len(geoJsonData.features)

\* C4 witness: a summary with two types, one of them counted twice.
C4_Witness ==
    /\ lastEvent = "summary"
    /\ Cardinality(DOMAIN summary.entries) >= 2
    /\ \E t \in DOMAIN summary.entries : summary.entries[t] >= 2

\* C5: after a Detailed click the details hold only LineString and
\* MultiLineString, a key exactly when the collection has a feature of that
\* type, each value the sum of the lengths of the features of that type.
C5_DetailsSumLineLengths ==
    lastEvent = "detailed" =>
        /\ details # Null
        /\ DOMAIN details.entries = TypesOf(geoJsonData) \cap LineTypes
        /\ \A t \in DOMAIN details.entries :
              details.entries[t]
                 = TotalLength(geoJsonData, FeaturesOfType(geoJsonData, t))

\* C5 witness: details of a collection with two LineStrings of positive length
\* and a feature of another type.
C5_Witness ==
    /\ lastEvent = "detailed"
    /\ details # Null
    /\ CountOf(geoJsonData, "LineString") >= 2
    /\ TypesOf(geoJsonData) \ LineTypes # {}
    /\ details.entries["LineString"] > TurfLength(Feature(LineB))

\* C6 as stated: never two reads started and neither completed.
C6_AtMostOneInFlight == Len(inflight) <= 1

\* C6 amended: a file selection starts one new read and leaves every earlier
\* unfinished read pending.
C6_SelectionKeepsEarlierReads ==
    [][lastEvent' = "select"
          => /\ Len(inflight') = Len(inflight) + 1
             /\ SubSeq(inflight', 1, Len(inflight)) = inflight
             /\ inflight'[Len(inflight')] = lastSelected']_vars

\* C6 witness: a second file was selected while the first read is pending.
C6_Witness == lastEvent = "select" /\ Len(inflight) = 2

\* C7: once the effect has run for a collection without any position, no
\* bounds were fitted: the effect skipped the map and the viewport is the default.
C7_EmptyCollectionKeepsViewport ==
    (lastEvent = "effect" /\ geoJsonData # Null /\ Positions(geoJsonData) = {})
        => effectResult = "skipped" /\ viewport = DefaultViewport

\* C8: a Summary (Detailed) click on a collection whose summary (details) has
\* been computed since the load leaves that view as it is.
C8_ClickIsIdempotent ==
    [][/\ (lastEvent' = "summary" /\ summary # Null) => summary' = summary
       /\ (lastEvent' = "detailed" /\ details # Null) => details' = details]_vars

\* C8 witness: Summary was clicked with the summary already computed.
C8_Witness ==
    /\ lastEvent = "summary" /\ again
    /\ summary # Null /\ summary.entries # EmptyEntries

\* C9: a Summary click changes neither collection nor details, a Detailed click
\* neither collection nor summary, the effect none of the three; the collection
\* changes only in a read's completion.
C9_FrameOfMetricsAndEffect ==
    [][/\ lastEvent' = "summary" => UNCHANGED <<geoJsonData, details>>
       /\ lastEvent' = "detailed" => UNCHANGED <<geoJsonData, summary>>
       /\ lastEvent' = "effect" => UNCHANGED <<geoJsonData, summary, details>>
       /\ geoJsonData' # geoJsonData => lastEvent' = "load"]_vars

\* C9 witness: Detailed was clicked with a summary on display, which is kept.
C9_Witness ==
    /\ lastEvent = "detailed"
    /\ summary # Null /\ details # Null

\* C10: a pending read leaves the pending reads only by running its completion
\* callback, which replaces the collection by the one parsed from its text;
\* once a callback has finished the collection is that of the read that
\* completed last, and right after it summary and details are null.
C10_LastCompletionWins ==
    /\ []((pc = "idle" /\ lastLoaded # NoFile) =>
            /\ geoJsonData = kml(parseFromString(lastLoaded))
            /\ lastEvent = "load" => summary = Null /\ details = Null)
    /\ [][Len(inflight') < Len(inflight) =>
            \E i \in DOMAIN inflight :
                /\ inflight' = Without(inflight, i)
                /\ lastLoaded' = inflight[i]
                /\ geoJsonData' = kml(parseFromString(inflight[i]))]_vars

\* C10 witness: every started read has completed and the collection is that of
\* a file selected before the last selection, not of the last selection.
C10_Witness ==
    /\ pc = "idle" /\ inflight = << >> /\ lastEvent = "load"
    /\ lastSelected # NoFile /\ lastLoaded # lastSelected
    /\ geoJsonData = kml(parseFromString(lastLoaded))
    /\ geoJsonData # kml(parseFromString(lastSelected))
    /\ summary = Null /\ details = Null

====
